---- MODULE Spec2Model ----
(***************************************************************************)
(* Model of app.py: the menu-text segmentation pass (parse_menu_items)     *)
(* followed by the "Generate All Images" loop over its result.             *)
(*                                                                         *)
(* A string is a sequence of one-character strings.                        *)
(***************************************************************************)
EXTENDS Integers, Sequences, FiniteSets, TLC

\* ---------------------------------------------------------------- characters

Whitespace == {" ", "\t", "\n", "\r"}

Digits == {"0", "1", "2", "3", "4", "5", "6", "7", "8", "9"}

UpperChars == {"A", "B", "C", "D", "E", "F", "G", "H", "I", "J", "K", "L", "M",
               "N", "O", "P", "Q", "R", "S", "T", "U", "V", "W", "X", "Y", "Z"}

LowerChars == {"a", "b", "c", "d", "e", "f", "g", "h", "i", "j", "k", "l", "m",
               "n", "o", "p", "q", "r", "s", "t", "u", "v", "w", "x", "y", "z"}

\* the character class [\d\$\£\€\¥] of the noise filter
PriceStart == Digits \cup {"$", "£", "€", "¥"}

\* the character class [\d.] of the price removal
PriceBody == Digits \cup {"."}

\* ---------------------------------------------------------------- str methods

Min(S) == CHOOSE i \in S : \A j \in S : i <= j

Max(S) == CHOOSE i \in S : \A j \in S : j <= i

\* str.strip(): whitespace removed at both ends
strip(s) ==
    IF \A i \in 1..Len(s) : s[i] \in Whitespace THEN <<>>
    ELSE LET first == CHOOSE i \in 1..Len(s) :
                          /\ s[i] \notin Whitespace
                          /\ \A j \in 1..(i - 1) : s[j] \in Whitespace
             last == CHOOSE i \in 1..Len(s) :
                          /\ s[i] \notin Whitespace
                          /\ \A j \in (i + 1)..Len(s) : s[j] \in Whitespace
         IN  SubSeq(s, first, last)

\* str.split('\n'): cut at every newline, empty pieces kept
RECURSIVE split(_)
split(s) ==
    LET nl == {i \in 1..Len(s) : s[i] = "\n"}
    IN  IF nl = {} THEN <<s>>
        ELSE <<SubSeq(s, 1, Min(nl) - 1)>>
             \o split(SubSeq(s, Min(nl) + 1, Len(s)))

\* str.isupper(): at least one cased character and no lowercase one
isupper(s) ==
    /\ \E i \in 1..Len(s) : s[i] \in UpperChars
    /\ \A i \in 1..Len(s) : s[i] \notin LowerChars

\* str.istitle(): uppercase characters only after uncased ones, lowercase
\* characters only after cased ones, and at least one cased character
istitle(s) ==
    /\ \E i \in 1..Len(s) : s[i] \in UpperChars \cup LowerChars
    /\ \A i \in 1..Len(s) :
          LET prevCased == i > 1 /\ s[i - 1] \in UpperChars \cup LowerChars
          IN  /\ s[i] \in UpperChars => ~prevCased
              /\ s[i] \in LowerChars => prevCased

\* ---------------------------------------------------------------- regexes

\* re.match(r'^[\d\$\£\€\¥]+', line)
matchPriceStart(line) == line # <<>> /\ Head(line) \in PriceStart

\* re.search(r'\$\d+', line)
searchPrice(line) ==
    \E i \in 1..(Len(line) - 1) : line[i] = "$" /\ line[i + 1] \in Digits

\* the characters of the longest prefix of s inside [\d.]
RECURSIVE dropPriceBody(_)
dropPriceBody(s) ==
    IF s # <<>> /\ Head(s) \in PriceBody THEN dropPriceBody(Tail(s)) ELSE s

\* re.sub(r'\$[\d.]+', '', line): leftmost, greedy, non-overlapping
RECURSIVE subPrice(_)
subPrice(s) ==
    IF s = <<>> THEN <<>>
    ELSE IF Head(s) = "$" /\ Len(s) >= 2 /\ s[2] \in PriceBody
         THEN subPrice(dropPriceBody(Tail(s)))
         ELSE <<Head(s)>> \o subPrice(Tail(s))

\* ---------------------------------------------------------------- line classes

MinLineLen == 3

MaxNameLen == 50

\* the filter without its length test
isSkipped_KeepShort(line) ==
    \/ line = <<>>
    \/ matchPriceStart(line)

\* the filter without its price test
isSkipped_KeepPrices(line) ==
    \/ line = <<>>
    \/ Len(line) < MinLineLen

\* the two `continue` tests of the loop, on the stripped line
isSkipped(line) ==
    \/ line = <<>>
    \/ matchPriceStart(line)
    \/ Len(line) < MinLineLen

\* "looks like a dish name", on the stripped line
isNameLine(line) ==
    /\ Len(line) < MaxNameLen
    /\ (searchPrice(line) \/ isupper(line) \/ istitle(line))

\* the name left untrimmed after the price removal
nameOf_Untrimmed(line) == subPrice(line)

\* the name stored for a name line
nameOf(line) == strip(subPrice(line))

\* ---------------------------------------------------------------- the pass

\* one record of menu_items
MenuItem(name, description) == [name |-> name, description |-> description]

\* the accumulators of the pass
Acc(item, desc, items) == [item |-> item, desc |-> desc, items |-> items]

\* the pending item put in front of the result
onNameLine_Prepend(line, st) ==
    Acc(nameOf(line),
        <<>>,
        IF st.item # <<>>
        THEN <<MenuItem(st.item, st.desc)>> \o st.items
        ELSE st.items)

\* the description not reset at a name line
onNameLine_KeepDescription(line, st) ==
    Acc(nameOf(line),
        st.desc,
        IF st.item # <<>>
        THEN Append(st.items, MenuItem(st.item, st.desc))
        ELSE st.items)

\* the item appended as soon as its name line is read
onNameLine_Eager(line, st) ==
    Acc(nameOf(line),
        <<>>,
        Append(st.items, MenuItem(nameOf(line), <<>>)))

\* a dish-name line: the pending item is appended, the line becomes pending
onNameLine(line, st) ==
    Acc(nameOf(line),
        <<>>,
        IF st.item # <<>>
        THEN Append(st.items, MenuItem(st.item, st.desc))
        ELSE st.items)

\* a description line
onDescLine(line, st) ==
    Acc(st.item, st.desc \o <<" ">> \o line, st.items)

\* the body of `for line in lines`
loopBody(raw, st) ==
    LET line == strip(raw)
    IN  IF isSkipped(line) THEN st
        ELSE IF isNameLine(line) THEN onNameLine(line, st)
        ELSE onDescLine(line, st)

\* the last item added whether or not a name is pending
addLast_Unguarded(st) ==
    Append(st.items, MenuItem(st.item, strip(st.desc)))

\* the last item never added
addLast_Forgotten(st) == st.items

\* "Add the last item"
addLast(st) ==
    IF st.item # <<>>
    THEN Append(st.items, MenuItem(st.item, strip(st.desc)))
    ELSE st.items

RECURSIVE loopFrom(_, _)
loopFrom(ls, st) ==
    IF ls = <<>> THEN st ELSE loopFrom(Tail(ls), loopBody(Head(ls), st))

\* the whole function
parse_menu_items(t) == addLast(loopFrom(split(t), Acc(<<>>, <<>>, <<>>)))

\* ---------------------------------------------------------------- image requests

\* what a request to the image service, or the download after it, does
Outcomes == {"ok", "generation_error", "download_error"}

\* generate_food_image without its try/except
generate_food_image_Raises(cl, outcome) ==
    IF ~cl THEN [image |-> FALSE, raised |-> FALSE]
    ELSE IF outcome = "ok" THEN [image |-> TRUE, raised |-> FALSE]
    ELSE [image |-> FALSE, raised |-> TRUE]

\* generate_food_image: the image (TRUE) or None (FALSE), and whether an
\* exception leaves the function
generate_food_image(cl, outcome) ==
    IF ~cl THEN [image |-> FALSE, raised |-> FALSE]
    ELSE IF outcome = "ok" THEN [image |-> TRUE, raised |-> FALSE]
    ELSE [image |-> FALSE, raised |-> FALSE]

\* ---------------------------------------------------------------- inputs

MaxLines == 3

MaxLen == 4

LineSoup ==
    <<"S", "O", "U", "P">>

LineTea ==
    <<"t", "e", "a", " ", "$", "4">>

LineSalad ==
    <<" ", " ", "S", "A", "L", "A", "D", " ", "$", "9", ".", "5", "0", " ">>

LineRice ==
    <<"w", "i", "t", "h", " ", "r", "i", "c", "e">>

LinePeas ==
    <<"a", "n", "d", " ", "p", "e", "a", "s">>

LinePrice ==
    <<"$", "1", "2", ".", "9", "9">>

LineShort ==
    <<"a", "b">>

LineBlank ==
    <<>>

\* an all-uppercase line of exactly MaxNameLen characters
LineLong ==
    [i \in 1..MaxNameLen |-> "A"]

LineOunces ==
    <<"1", "2", " ", "o", "z">>

LinePounds ==
    <<"£", "5", " ", "s", "e", "t">>

LineEuro ==
    <<" ", "€", "¥", " ">>

TextP5 ==
    <<"C", "A", "E", "S", "A", "R", " ", "S", "A", "L", "A", "D", "\n", "C",
      "r", "i", "s", "p", " ", "r", "o", "m", "a", "i", "n", "e", ",", " ",
      "p", "a", "r", "m", "e", "s", "a", "n", ",", " ", "c", "r", "o", "u",
      "t", "o", "n", "s", "\n", "w", "i", "t", "h", " ", "h", "o", "u", "s",
      "e", " ", "d", "r", "e", "s", "s", "i", "n", "g", "\n", "B", "E", "E",
      "F", " ", "B", "U", "R", "G", "E", "R", " ", "$", "1", "5", "\n", "S",
      "e", "r", "v", "e", "d", " ", "w", "i", "t", "h", " ", "f", "r", "i",
      "e", "s">>

TextP4 ==
    <<"G", "R", "I", "L", "L", "E", "D", " ", "S", "A", "L", "M", "O", "N",
      " ", "$", "2", "4">>

DescCaesar ==
    <<"C", "r", "i", "s", "p", " ", "r", "o", "m", "a", "i", "n", "e", ",",
      " ", "p", "a", "r", "m", "e", "s", "a", "n", ",", " ", "c", "r", "o",
      "u", "t", "o", "n", "s", " ", "w", "i", "t", "h", " ", "h", "o", "u",
      "s", "e", " ", "d", "r", "e", "s", "s", "i", "n", "g">>

DescBurger ==
    <<"S", "e", "r", "v", "e", "d", " ", "w", "i", "t", "h", " ", "f", "r",
      "i", "e", "s">>

NameCaesar ==
    <<"C", "A", "E", "S", "A", "R", " ", "S", "A", "L", "A", "D">>

NameBurger ==
    <<"B", "E", "E", "F", " ", "B", "U", "R", "G", "E", "R">>

NameSalmon ==
    <<"G", "R", "I", "L", "L", "E", "D", " ", "S", "A", "L", "M", "O", "N">>

MenuLines ==
    {LineSoup, LineTea, LineSalad, LineRice, LinePeas, LinePrice, LineBlank,
     LineLong}

SmallAlphabet == {"A", "a", "1", "$", ".", " ", "\n"}

\* '\n'.join(ls)
RECURSIVE join(_)
join(ls) ==
    IF ls = <<>> THEN <<>>
    ELSE IF Len(ls) = 1 THEN ls[1]
    ELSE ls[1] \o <<"\n">> \o join(Tail(ls))

Texts ==
    UNION { {join(ls) : ls \in [1..n -> MenuLines]} : n \in 0..MaxLines }
    \cup UNION { [1..n -> SmallAlphabet] : n \in 0..MaxLen }
    \cup {TextP5, TextP4}

\* menus for the bulk loop: names with and without a description
BulkTexts ==
    UNION { {join(ls) : ls \in [1..n -> {LineSoup, LineTea, LineRice}]} :
            n \in 0..MaxLines }

\* ---------------------------------------------------------------- state

VARIABLES text, lines, idx, current_item, current_description, menu_items,
          client, pc, bulk_i, results

vars == <<text, lines, idx, current_item, current_description, menu_items,
          client, pc, bulk_i, results>>

parseVars == <<text, lines, idx, current_item, current_description, menu_items>>

bulkVars == <<bulk_i, results>>

\* a run on one of the texts T
InitWith(T) ==
    /\ text \in T
    /\ client \in BOOLEAN
    /\ lines = <<>>
    /\ idx = 0
    /\ current_item = <<>>
    /\ current_description = <<>>
    /\ menu_items = <<>>
    /\ pc = "split"
    /\ bulk_i = 0
    /\ results = <<>>

Init == InitWith(Texts)

acc == Acc(current_item, current_description, menu_items)

SetAcc(st) ==
    /\ current_item' = st.item
    /\ current_description' = st.desc
    /\ menu_items' = st.items

\* lines = text.split('\n')
SplitLines ==
    /\ pc = "split"
    /\ lines' = split(text)
    /\ idx' = 1
    /\ pc' = "loop"
    /\ UNCHANGED <<text, current_item, current_description, menu_items,
                   client, bulk_i, results>>

\* one iteration of the loop over the lines
LoopStep ==
    /\ pc = "loop"
    /\ idx <= Len(lines)
    /\ SetAcc(loopBody(lines[idx], acc))
    /\ idx' = idx + 1
    /\ UNCHANGED <<text, lines, client, pc, bulk_i, results>>

\* the loop is over: the pending item is added and the list returned
AddLast ==
    /\ pc = "loop"
    /\ idx > Len(lines)
    /\ menu_items' = addLast(acc)
    /\ pc' = "parsed"
    /\ UNCHANGED <<text, lines, idx, current_item, current_description,
                   client, bulk_i, results>>

\* "No menu items could be identified"
NoItems ==
    /\ pc = "parsed"
    /\ menu_items = <<>>
    /\ pc' = "done"
    /\ UNCHANGED <<parseVars, client, bulkVars>>

\* the items are shown; without a client, or with the button not pressed,
\* the run ends here
NoBulk ==
    /\ pc = "parsed"
    /\ menu_items # <<>>
    /\ pc' = "done"
    /\ UNCHANGED <<parseVars, client, bulkVars>>

\* "Generate All Images" is pressed
StartBulk ==
    /\ pc = "parsed"
    /\ menu_items # <<>>
    /\ client
    /\ bulk_i' = 1
    /\ pc' = "bulk"
    /\ UNCHANGED <<parseVars, client, results>>

\* one iteration of the bulk loop
BulkStep ==
    /\ pc = "bulk"
    /\ bulk_i <= Len(menu_items)
    /\ \E outcome \in Outcomes :
          LET r == generate_food_image(client, outcome)
          IN  /\ results' = Append(results,
                                   [item |-> bulk_i, outcome |-> outcome,
                                    image |-> r.image])
              /\ IF r.raised
                 THEN pc' = "aborted" /\ bulk_i' = bulk_i
                 ELSE pc' = pc /\ bulk_i' = bulk_i + 1
    /\ UNCHANGED <<parseVars, client>>

\* "All images generated!"
BulkDone ==
    /\ pc = "bulk"
    /\ bulk_i > Len(menu_items)
    /\ pc' = "bulk_done"
    /\ UNCHANGED <<parseVars, client, bulkVars>>

Next ==
    \/ SplitLines
    \/ LoopStep
    \/ AddLast
    \/ NoItems
    \/ NoBulk
    \/ StartBulk
    \/ BulkStep
    \/ BulkDone

Spec == Init /\ [][Next]_vars

\* the script runs to its end: no step of it waits for anything but its
\* own blocking calls
FairSpec == InitWith(BulkTexts) /\ [][Next]_vars /\ WF_vars(Next)

TypeOK ==
    /\ pc \in {"split", "loop", "parsed", "done", "bulk", "bulk_done", "aborted"}
    /\ idx \in 0..(Len(lines) + 1)
    /\ bulk_i \in 0..(Len(menu_items) + 1)

\* ---------------------------------------------------------------- vocabulary

\* how the loop treats a raw line of the text
lineClass(raw) ==
    IF isSkipped(strip(raw)) THEN "skip"
    ELSE IF isNameLine(strip(raw)) THEN "name"
    ELSE "desc"

NameIdx(ls) == {i \in 1..Len(ls) : lineClass(ls[i]) = "name"}

DescIdx(ls) == {i \in 1..Len(ls) : lineClass(ls[i]) = "desc"}

\* the position of the k-th name line
NthName(ls, k) ==
    CHOOSE i \in NameIdx(ls) : Cardinality({j \in NameIdx(ls) : j <= i}) = k

\* the position of the name line after position i, or past the end
NextName(ls, i) ==
    IF \E j \in NameIdx(ls) : j > i
    THEN Min({j \in NameIdx(ls) : j > i})
    ELSE Len(ls) + 1

\* the description lines among ls[lo..hi], trimmed, joined with single spaces
RECURSIVE SpaceJoined(_, _, _)
SpaceJoined(ls, lo, hi) ==
    IF lo > hi THEN <<>>
    ELSE LET rest == SpaceJoined(ls, lo + 1, hi)
         IN  IF lineClass(ls[lo]) # "desc" THEN rest
             ELSE IF rest = <<>> THEN strip(ls[lo])
             ELSE strip(ls[lo]) \o <<" ">> \o rest

\* the description lines between the name line at i and the next name line
DescriptionAfter(ls, i) == SpaceJoined(ls, i + 1, NextName(ls, i) - 1)

Names(items) == [k \in 1..Len(items) |-> items[k].name]

IsTrimmed(s) == s = <<>> \/ (s[1] \notin Whitespace /\ s[Len(s)] \notin Whitespace)

HasPrice(s) == \E i \in 1..(Len(s) - 1) : s[i] = "$" /\ s[i + 1] \in Digits

\* s without the characters a price removal or a trim can take away
Letters(s) ==
    SelectSeq(s, LAMBDA c : c \notin PriceBody \cup {"$"} \cup Whitespace)

\* ls with the line n put in front of position pos + 1
InsertLine(ls, pos, n) ==
    SubSeq(ls, 1, pos) \o <<n>> \o SubSeq(ls, pos + 1, Len(ls))

\* lines the noise filter is meant for: prices, and lines under 3 characters
NoiseLines ==
    {LinePrice, LineShort, LineBlank, LineOunces, LinePounds, LineEuro}

Returned == pc = "parsed"

\* ---------------------------------------------------------------- claims

\* C1: every returned item's description is the trimmed, single-space join of
\* the description lines between its name line and the next name line, and
\* the CAESAR SALAD / BEEF BURGER text yields exactly its two items.
C1_DescriptionsTrimmed ==
    Returned =>
        /\ \A k \in 1..Len(menu_items) :
              k <= Cardinality(NameIdx(lines)) =>
                  menu_items[k].description
                      = DescriptionAfter(lines, NthName(lines, k))
        /\ text = TextP5 =>
              menu_items = <<MenuItem(NameCaesar, DescCaesar),
                             MenuItem(NameBurger, DescBurger)>>

\* C2: a price line or a line under 3 characters inserted as a whole line at
\* any position leaves the returned sequence unchanged.
C2_NoiseInvariance ==
    Returned =>
        \A pos \in 0..Len(lines) : \A n \in NoiseLines :
            parse_menu_items(join(InsertLine(lines, pos, n))) = menu_items

C2_Witness ==
    /\ Returned
    /\ lines = <<LineSoup, LineRice, LinePeas>>
    /\ menu_items = <<MenuItem(LineSoup, LineRice \o <<" ">> \o LinePeas)>>
    /\ parse_menu_items(join(<<LineSoup, LineRice, LinePrice, LinePeas>>))
          = menu_items

\* C3: the returned names are the names of the name lines, in text order.
C3_OrderPreserved ==
    Returned =>
        Names(menu_items)
            = [k \in 1..Cardinality(NameIdx(lines)) |->
                  nameOf(strip(lines[NthName(lines, k)]))]

C3_Witness ==
    /\ Returned
    /\ Len(menu_items) >= 2
    /\ menu_items[1].name # menu_items[2].name
    /\ menu_items[1].name = nameOf(strip(lines[NthName(lines, 1)]))

\* C4: a returned name is its name line without the prices and trimmed: it
\* has no "$" followed by a digit, no whitespace at either end, and differs
\* from its line only in price characters and whitespace; "GRILLED SALMON
\* $24" gives "GRILLED SALMON".
C4_PriceStripped ==
    Returned =>
        /\ \A k \in 1..Len(menu_items) :
              /\ ~HasPrice(menu_items[k].name)
              /\ IsTrimmed(menu_items[k].name)
              /\ k <= Cardinality(NameIdx(lines)) =>
                    Letters(menu_items[k].name)
                        = Letters(lines[NthName(lines, k)])
        /\ text = TextP4 => menu_items = <<MenuItem(NameSalmon, <<>>)>>

C4_Witness ==
    /\ Returned
    /\ text = TextP4
    /\ HasPrice(lines[1])
    /\ menu_items[1].name = NameSalmon

\* C5: description lines before the first name line are in no returned
\* description: each description holds the lines after its own name line.
C5_DanglingDiscarded ==
    Returned =>
        /\ menu_items = parse_menu_items(
              join(SubSeq(lines, NextName(lines, 0), Len(lines))))
        /\ \A k \in 1..Len(menu_items) :
              k <= Cardinality(NameIdx(lines)) =>
                  strip(menu_items[k].description)
                      = DescriptionAfter(lines, NthName(lines, k))

C5_Witness ==
    /\ Returned
    /\ lines # <<>>
    /\ lineClass(lines[1]) = "desc"
    /\ menu_items # <<>>
    /\ menu_items[1].description # <<>>

\* C6: a text without a name line returns the empty sequence.
C6_NoNamesNoItems ==
    (Returned /\ NameIdx(lines) = {}) => menu_items = <<>>

C6_Witness ==
    /\ Returned
    /\ NameIdx(lines) = {}
    /\ Cardinality(DescIdx(lines)) >= 2
    /\ menu_items = <<>>

\* C7: a last name line followed by no description line is returned as the
\* last item, with the empty description.
C7_TrailingFlush ==
    (/\ Returned
     /\ NameIdx(lines) # {}
     /\ \A j \in DescIdx(lines) : j < Max(NameIdx(lines)))
    => /\ menu_items # <<>>
       /\ menu_items[Len(menu_items)]
             = MenuItem(nameOf(strip(lines[Max(NameIdx(lines))])), <<>>)

C7_Witness ==
    /\ Returned
    /\ Len(lines) >= 3
    /\ lineClass(lines[Len(lines) - 1]) = "name"
    /\ lineClass(lines[Len(lines)]) = "skip"
    /\ \A j \in DescIdx(lines) : j < Max(NameIdx(lines))
    /\ Len(menu_items) >= 2
    /\ menu_items[Len(menu_items)].description = <<>>

\* C8: every name line gives a name that is not empty after trimming, so
\* each name line has its item.
C8_NamesNonEmpty ==
    /\ \A k \in 1..Len(menu_items) : strip(menu_items[k].name) # <<>>
    /\ \A i \in NameIdx(lines) : strip(nameOf(strip(lines[i]))) # <<>>
    /\ Returned => Len(menu_items) = Cardinality(NameIdx(lines))

C8_Witness ==
    /\ Returned
    /\ \E i \in NameIdx(lines) :
          /\ nameOf(strip(lines[i])) # strip(lines[i])
          /\ Len(nameOf(strip(lines[i]))) = 1
    /\ Len(menu_items) = Cardinality(NameIdx(lines))

\* C9: in the bulk loop generate_food_image is called once per item, in menu
\* order, whatever the earlier requests did, and the loop reaches its end.
C9_Called == [k \in 1..Len(results) |-> results[k].item]

C9_BulkIsolation ==
    /\ [](/\ pc # "aborted"
          /\ pc = "bulk" => C9_Called = [k \in 1..(bulk_i - 1) |-> k]
          /\ pc = "bulk_done" => C9_Called = [k \in 1..Len(menu_items) |-> k])
    /\ (pc = "bulk") ~> (pc = "bulk_done")

C9_Witness ==
    /\ pc = "bulk_done"
    /\ Len(menu_items) >= 2
    /\ results[1].outcome = "generation_error"
    /\ results[2].outcome = "download_error"
    /\ C9_Called = [k \in 1..Len(menu_items) |-> k]

\* C10: during the pass the result holds one item less than the name lines
\* read so far, the last name being pending; an item is appended only at a
\* name line or at the end of the input, appended items never change, and
\* the returned result has one item per name line.
C10_Read == {i \in NameIdx(lines) : i < idx}

C10_Pending ==
    /\ pc = "loop" /\ C10_Read = {} => menu_items = <<>> /\ current_item = <<>>
    /\ pc = "loop" /\ C10_Read # {} =>
          /\ Len(menu_items) = Cardinality(C10_Read) - 1
          /\ current_item = nameOf(strip(lines[Max(C10_Read)]))
    /\ Returned => Len(menu_items) = Cardinality(NameIdx(lines))

C10_AppendOnly ==
    /\ Len(menu_items') >= Len(menu_items)
    /\ SubSeq(menu_items', 1, Len(menu_items)) = menu_items
    /\ menu_items' # menu_items =>
          /\ Len(menu_items') = Len(menu_items) + 1
          /\ pc = "loop"
          /\ idx > Len(lines) \/ lineClass(lines[idx]) = "name"

C10_Finalization == [](C10_Pending) /\ [][C10_AppendOnly]_vars

C10_Witness ==
    /\ pc = "loop"
    /\ Cardinality(C10_Read) >= 2
    /\ Len(menu_items) = Cardinality(C10_Read) - 1
    /\ current_description # <<>>

====
